---- MODULE Spec2Model ----
(***************************************************************************)
(* Model of src/app.py, the Bible Data Processing Tool page script.        *)
(*                                                                         *)
(* Text is a sequence of one-character strings.  A Python scalar held in   *)
(* a record of the TSV read path is [t |-> type, s |-> its str() form].    *)
(* A record (a Python dict) is a sequence of [k |-> key, v |-> value]      *)
(* pairs in insertion order.                                               *)
(***************************************************************************)
EXTENDS Integers, Sequences, FiniteSets, TLC

\* ------------------------------------------------------------------ bounds
\* Longest uploaded file, in bytes, of the page-script specification.
MaxFileLen == 2
\* Longest TSV text, in characters, of the TSV pipeline specification.
MaxLen == 5
\* Longest input text, in characters, of the helper-function specification.
MaxText == 3

\* ------------------------------------------------------------- characters
TAB == "\t"
NL == "\n"
Digits == {"0", "1", "2", "3", "4", "5", "6", "7", "8", "9"}
DigitSeq == <<"0", "1", "2", "3", "4", "5", "6", "7", "8", "9">>

\* The characters input texts are drawn from.
TextChars == {"a", "0", "1", TAB, NL}

\* Bytes of an uploaded file: ASCII bytes, and the two bytes 0xC3 0xA9 that
\* encode one character (e-acute) when adjacent and are invalid otherwise.
C3 == "xC3"
A9 == "xA9"
EAcute == "e'"
FileBytes == {"a", NL, C3, A9}

SeqsUpTo(S, n) == UNION {[1..k -> S] : k \in 0..n}

\* --------------------------------------------------------- string helpers
RECURSIVE SplitFrom(_, _, _, _)
SplitFrom(s, sep, i, cur) ==
    IF i > Len(s) THEN <<cur>>
    ELSE IF s[i] = sep THEN <<cur>> \o SplitFrom(s, sep, i + 1, <<>>)
    ELSE SplitFrom(s, sep, i + 1, Append(cur, s[i]))

\* str.split(sep): "" gives [""], "a\n" gives ["a", ""].
Split(s, sep) == SplitFrom(s, sep, 1, <<>>)

RECURSIVE Join(_, _)
\* sep.join(parts)
Join(parts, sep) ==
    IF Len(parts) = 0 THEN <<>>
    ELSE IF Len(parts) = 1 THEN parts[1]
    ELSE parts[1] \o sep \o Join(Tail(parts), sep)

RECURSIVE Concat(_)
Concat(parts) == IF Len(parts) = 0 THEN <<>> ELSE parts[1] \o Concat(Tail(parts))

RECURSIVE SelectSeqIdx(_, _, _)
\* The indices i >= from of s, in order, with s[i] # <<>>.
SelectSeqIdx(s, from, acc) ==
    IF from > Len(s) THEN acc
    ELSE SelectSeqIdx(s, from + 1, IF s[from] # <<>> THEN Append(acc, from) ELSE acc)

\* str(n) of a natural number below 100.
NatStr(n) == IF n < 10 THEN <<DigitSeq[n + 1]>>
             ELSE <<DigitSeq[(n \div 10) + 1], DigitSeq[(n % 10) + 1]>>

\* ---------------------------------------------------------- Python values
PyInt(s) == [t |-> "int", s |-> s]
PyFloat(s) == [t |-> "float", s |-> s]
PyStr(s) == [t |-> "str", s |-> s]
NaN == PyFloat(<<"n", "a", "n">>)

IsDigits(c) == Len(c) > 0 /\ \A i \in 1..Len(c) : c[i] \in Digits

\* digits '.' digits with at least one digit: what the float parser accepts
\* among the texts the model can form.
IsFloatForm(c) ==
    /\ Cardinality({i \in 1..Len(c) : c[i] = "."}) = 1
    /\ Len(c) > 1
    /\ \A i \in 1..Len(c) : c[i] \in Digits \cup {"."}

RECURSIVE StripLeadingZeros(_)
StripLeadingZeros(c) ==
    IF Len(c) > 1 /\ c[1] = "0" THEN StripLeadingZeros(Tail(c)) ELSE c

RECURSIVE StripTrailingZeros(_)
StripTrailingZeros(c) ==
    IF Len(c) > 1 /\ c[Len(c)] = "0"
    THEN StripTrailingZeros(SubSeq(c, 1, Len(c) - 1)) ELSE c

\* str(int(c)) for a digit string c.
IntCanon(c) == StripLeadingZeros(c)

\* repr(float(c)) for a digit string or a digits.digits string c.
FloatCanon(c) ==
    IF IsDigits(c) THEN IntCanon(c) \o <<".", "0">>
    ELSE LET parts == Split(c, ".")
             ip == IF parts[1] = <<>> THEN <<"0">> ELSE IntCanon(parts[1])
             fp == IF parts[2] = <<>> THEN <<"0">> ELSE StripTrailingZeros(parts[2])
         IN ip \o <<".">> \o fp

\* ------------------------------------------------- pd.read_csv(..., sep='\t')
Unnamed(i) == <<"U", "n", "n", "a", "m", "e", "d", ":", " ">> \o NatStr(i)

\* Header names: an empty name becomes "Unnamed: i" (i from 0); the k-th
\* repeat of a name x becomes "x.k".
MangleNames(header) ==
    LET filled == [i \in 1..Len(header) |->
                     IF header[i] = <<>> THEN Unnamed(i - 1) ELSE header[i]]
        seen(i) == Cardinality({j \in 1..(i - 1) : filled[j] = filled[i]})
    IN [i \in 1..Len(header) |->
          IF seen(i) = 0 THEN filled[i] ELSE filled[i] \o <<".">> \o NatStr(seen(i))]

MaxOf(a, b) == IF a >= b THEN a ELSE b

IsNumeric(c) == IsDigits(c) \/ IsFloatForm(c)

\* dtype of a column from its cells (type inference of the C parser):
\* int64 when every cell is an integer, float64 when every cell is a number
\* or missing, object otherwise.  A column of no cells is object.
ColumnDtype(cells) ==
    IF Len(cells) = 0 THEN "object"
    ELSE IF \A i \in 1..Len(cells) : IsDigits(cells[i]) THEN "int64"
    ELSE IF \A i \in 1..Len(cells) : cells[i] = <<>> \/ IsNumeric(cells[i]) THEN "float64"
    ELSE "object"

\* One parsed cell of a column of the given dtype; a missing cell is NaN.
ParseCell(dtype, c) ==
    IF c = <<>> THEN NaN
    ELSE IF dtype = "int64" THEN PyInt(IntCanon(c))
    ELSE IF dtype = "float64" THEN PyFloat(FloatCanon(c))
    ELSE PyStr(c)

\* The fields of one line; "" is the quoted empty field.  (Input texts hold
\* no quote character, so no other quoting arises.)
Fields(line) ==
    LET raw == Split(line, TAB)
    IN [j \in 1..Len(raw) |-> IF raw[j] = <<"\"", "\"">> THEN <<>> ELSE raw[j]]

\* pd.read_csv(io.StringIO(text), sep='\t') followed by df.to_dict('records').
\* Blank lines are skipped; the first line left is the header; a first data
\* row with more fields than the header makes the extra leading fields an
\* implicit index (dropped by to_dict); shorter rows are padded with missing
\* cells; a later row longer than the rows before it is a ParserError.
ReadCsv(text) ==
    LET all == Split(text, NL)
        keep == SelectSeqIdx(all, 1, <<>>)
        lines == [i \in 1..Len(keep) |-> all[keep[i]]]
    IN IF Len(lines) = 0
       THEN [err |-> "EmptyDataError", columns |-> <<>>, records |-> <<>>]
       ELSE
       LET header == Fields(lines[1])
           names == MangleNames(header)
           body == [i \in 1..(Len(lines) - 1) |-> Fields(lines[i + 1])]
           width == IF Len(body) = 0 THEN Len(header)
                    ELSE MaxOf(Len(header), Len(body[1]))
           leading == width - Len(header)
           cell(i, j) == IF leading + j <= Len(body[i]) THEN body[i][leading + j]
                         ELSE <<>>
           column(j) == [i \in 1..Len(body) |-> cell(i, j)]
           dtype == [j \in 1..Len(names) |-> ColumnDtype(column(j))]
       IN IF \E i \in 2..Len(body) : Len(body[i]) > width
          THEN [err |-> "ParserError", columns |-> <<>>, records |-> <<>>]
          ELSE [err |-> "",
                columns |-> names,
                records |-> [i \in 1..Len(body) |->
                               [j \in 1..Len(names) |->
                                  [k |-> names[j], v |-> ParseCell(dtype[j], cell(i, j))]]]]

\* ------------------------------ pd.DataFrame(data).to_csv(sep='\t', index=False)
RECURSIVE AddKeys(_, _, _)
AddKeys(rec, j, acc) ==
    IF j > Len(rec) THEN acc
    ELSE AddKeys(rec, j + 1,
                 IF \E n \in 1..Len(acc) : acc[n] = rec[j].k THEN acc
                 ELSE Append(acc, rec[j].k))

RECURSIVE FrameColumns(_, _, _)
\* Columns of pd.DataFrame(list of dicts): the keys in first-seen order; an
\* empty list gives a frame with no columns.
FrameColumns(data, i, acc) ==
    IF i > Len(data) THEN acc
    ELSE FrameColumns(data, i + 1, AddKeys(data[i], 1, acc))

\* dict.get(key, NaN)
Lookup(rec, key) ==
    IF \E j \in 1..Len(rec) : rec[j].k = key
    THEN rec[CHOOSE j \in 1..Len(rec) : rec[j].k = key].v
    ELSE NaN

\* dtype of a frame column built from Python values.
FrameDtype(vals) ==
    IF Len(vals) = 0 THEN "object"
    ELSE IF \A i \in 1..Len(vals) : vals[i].t = "int" THEN "int64"
    ELSE IF \A i \in 1..Len(vals) : vals[i].t \in {"int", "float"} THEN "float64"
    ELSE "object"

\* One cell as to_csv writes it: a missing value as the empty string, an
\* int of a float column as a float.
FormatCell(dtype, v) ==
    IF v = NaN THEN <<>>
    ELSE IF dtype = "float64" /\ v.t = "int" THEN FloatCanon(v.s)
    ELSE v.s

\* csv.writer writes a row that is one empty field as "".
CsvLine(fields) ==
    IF Len(fields) = 1 /\ fields[1] = <<>> THEN <<"\"", "\"">>
    ELSE Join(fields, <<TAB>>)

\* Mutant of ToCsv: the rows written last record first.
ToCsvReversed(data) ==
    LET cols == FrameColumns(data, 1, <<>>)
        vals(j) == [i \in 1..Len(data) |-> Lookup(data[i], cols[j])]
        dtype == [j \in 1..Len(cols) |-> FrameDtype(vals(j))]
        row(i) == CsvLine([j \in 1..Len(cols) |->
                             FormatCell(dtype[j], Lookup(data[Len(data) + 1 - i], cols[j]))])
    IN CsvLine(cols) \o <<NL>> \o Concat([i \in 1..Len(data) |-> row(i) \o <<NL>>])

ToCsv(data) ==
    LET cols == FrameColumns(data, 1, <<>>)
        vals(j) == [i \in 1..Len(data) |-> Lookup(data[i], cols[j])]
        dtype == [j \in 1..Len(cols) |-> FrameDtype(vals(j))]
        row(i) == CsvLine([j \in 1..Len(cols) |->
                             FormatCell(dtype[j], Lookup(data[i], cols[j]))])
    IN CsvLine(cols) \o <<NL>> \o Concat([i \in 1..Len(data) |-> row(i) \o <<NL>>])

\* ------------------------------------------------------- the value `data`
\* `data` of line 124 (a list of dicts) or of line 126 (a str).
DataList(recs) == [list |-> recs]
DataStr(t) == [str |-> t]

\* isinstance(data, list)
IsList(data) == "list" \in DOMAIN data

\* -------------------------------------------------------------- str(data)
Quote1 == "'"
Quote2 == "\""
Backslash == "\\"

\* repr of the characters of a str inside quotes.
ReprChars(c) ==
    Concat([i \in 1..Len(c) |->
              IF c[i] = NL THEN <<Backslash, "n">>
              ELSE IF c[i] = TAB THEN <<Backslash, "t">>
              ELSE IF c[i] = Backslash THEN <<Backslash, Backslash>>
              ELSE <<c[i]>>])

\* repr(v) of a scalar: a str in single quotes, a number as its str.
ReprValue(v) ==
    IF v.t = "str" THEN <<Quote1>> \o ReprChars(v.s) \o <<Quote1>> ELSE v.s

\* repr of one dict: {'k': v, ...}
ReprDict(rec) ==
    <<"{">> \o
    Join([j \in 1..Len(rec) |->
            <<Quote1>> \o ReprChars(rec[j].k) \o <<Quote1, ":", " ">> \o ReprValue(rec[j].v)],
         <<",", " ">>) \o
    <<"}">>

\* str(data): a str is itself, a list is [ item, item, ... ].
StrOf(data) ==
    IF IsList(data)
    THEN <<"[">> \o Join([i \in 1..Len(data.list) |-> ReprDict(data.list[i])], <<",", " ">>)
         \o <<"]">>
    ELSE data.str

\* ------------------------------------------------ json.dumps(data, indent=2)
\* A JSON string: ensure_ascii escapes of the characters the model can form.
JsonString(c) ==
    <<Quote2>> \o
    Concat([i \in 1..Len(c) |->
              IF c[i] = NL THEN <<Backslash, "n">>
              ELSE IF c[i] = TAB THEN <<Backslash, "t">>
              ELSE IF c[i] = Quote2 THEN <<Backslash, Quote2>>
              ELSE IF c[i] = Backslash THEN <<Backslash, Backslash>>
              ELSE IF c[i] = EAcute THEN <<Backslash, "u", "0", "0", "e", "9">>
              ELSE <<c[i]>>]) \o
    <<Quote2>>

JsonValue(v) ==
    IF v.t = "str" THEN JsonString(v.s)
    ELSE IF v = NaN THEN <<"N", "a", "N">>
    ELSE v.s

\* One dict at nesting level 1 of an indent=2 dump.
JsonObject(rec) ==
    IF Len(rec) = 0 THEN <<" ", " ", "{", "}">>
    ELSE <<" ", " ", "{", NL>> \o
         Join([j \in 1..Len(rec) |->
                 <<" ", " ", " ", " ">> \o JsonString(rec[j].k) \o <<":", " ">>
                 \o JsonValue(rec[j].v)],
              <<",", NL>>) \o
         <<NL, " ", " ", "}">>

JsonDumps(data) ==
    IF ~IsList(data) THEN JsonString(data.str)
    ELSE IF Len(data.list) = 0 THEN <<"[", "]">>
    ELSE <<"[", NL>> \o
         Join([i \in 1..Len(data.list) |-> JsonObject(data.list[i])], <<",", NL>>) \o
         <<NL, "]">>

\* ------------------------------------------------------------ str.lower()
Upper == <<"A", "B", "C", "D", "E", "F", "G", "H", "I", "J", "K", "L", "M",
           "N", "O", "P", "Q", "R", "S", "T", "U", "V", "W", "X", "Y", "Z">>
LowerLetters == <<"a", "b", "c", "d", "e", "f", "g", "h", "i", "j", "k", "l", "m",
                  "n", "o", "p", "q", "r", "s", "t", "u", "v", "w", "x", "y", "z">>

LowerChar(c) ==
    IF \E n \in 1..Len(Upper) : Upper[n] = c
    THEN LowerLetters[CHOOSE n \in 1..Len(Upper) : Upper[n] = c]
    ELSE c

Lower(c) == [i \in 1..Len(c) |-> LowerChar(c[i])]

\* -------------------------------------------------------- helper functions
\* dict.get(key, default)
Get(params, key, default) == IF key \in DOMAIN params THEN params[key] ELSE default

\* Mutant of TotalEntries: str.splitlines() in place of split('\n').
TotalEntriesSplitlines(data) ==
    IF IsList(data) THEN Len(data.list)
    ELSE LET lines == Split(StrOf(data), NL)
         IN IF lines[Len(lines)] = <<>> THEN Len(lines) - 1 ELSE Len(lines)

\* Mutant of TotalEntries: the isinstance test dropped.
TotalEntriesOfStr(data) == Len(Split(StrOf(data), NL))

\* len(data) if isinstance(data, list) else len(str(data).split('\n'))
TotalEntries(data) ==
    IF IsList(data) THEN Len(data.list) ELSE Len(Split(StrOf(data), NL))

\* An empty dict.
EmptyDict == [n \in {} |-> ""]

\* Lines 190-202: the entries a mode adds to the result.
ModeResults(mode, params) ==
    IF mode = "Translation Analysis"
    THEN [analysis |-> [source_language |-> Get(params, "source_lang", "Unknown"),
                        target_language |-> Get(params, "target_lang", "Unknown"),
                        analysis_types |-> Get(params, "analysis_type", <<>>)]]
    ELSE IF mode = "Quality Check"
    THEN [quality_report |-> [checks_performed |-> Get(params, "check_types", <<>>),
                              issues_found |-> 0,
                              quality_score |-> 95]]
    ELSE EmptyDict

\* Mutant of ProcessBibleData: the summary also names the credential.
ProcessBibleDataLeaking(data, mode, params) ==
    [summary |-> <<"Processed data using ", mode, " mode",
                   Get(params, "api_key", Get(params, "api_endpoint", ""))>>,
     processed_data |-> data,
     statistics |-> [total_entries |-> TotalEntries(data),
                     processing_mode |-> mode]]
    @@ ModeResults(mode, params)

\* process_bible_data(data, mode, params); the f-string summary is kept as
\* its three pieces.
ProcessBibleData(data, mode, params) ==
    [summary |-> <<"Processed data using ", mode, " mode">>,
     processed_data |-> data,
     statistics |-> [total_entries |-> TotalEntries(data),
                     processing_mode |-> mode]]
    @@ ModeResults(mode, params)

FmtJson == <<"j", "s", "o", "n">>
FmtTsv == <<"t", "s", "v">>

\* Mutant of CreateDownloadContent: the token compared without lower().
CreateDownloadContentCaseSensitive(data, format_type) ==
    IF format_type = <<"j", "s", "o", "n">> THEN JsonDumps(data)
    ELSE IF format_type = <<"t", "s", "v">> /\ IsList(data) THEN ToCsv(data.list)
    ELSE StrOf(data)

\* create_download_content(data, format_type)
CreateDownloadContent(data, format_type) ==
    IF Lower(format_type) = FmtJson THEN JsonDumps(data)
    ELSE IF Lower(format_type) = FmtTsv /\ IsList(data) THEN ToCsv(data.list)
    ELSE StrOf(data)

\* ------------------------------------------------------ bytes.decode('utf-8')
RECURSIVE DecodeFrom(_, _, _)
DecodeFrom(b, i, acc) ==
    IF i > Len(b) THEN [err |-> "", text |-> acc]
    ELSE IF b[i] = C3
         THEN IF i < Len(b) /\ b[i + 1] = A9
              THEN DecodeFrom(b, i + 2, Append(acc, EAcute))
              ELSE [err |-> "UnicodeDecodeError", text |-> <<>>]
    ELSE IF b[i] = A9 THEN [err |-> "UnicodeDecodeError", text |-> <<>>]
    ELSE DecodeFrom(b, i + 1, Append(acc, b[i]))

Decode(b) == DecodeFrom(b, 1, <<>>)

\* --------------------------------------------------------- the page's inputs
FileNames == {"f.tsv", "f.txt", "f.md", "f.usfm"}

\* name.endswith('.tsv')
EndsWithTsv(name) == name = "f.tsv"

NoFile == [name |-> "", content |-> <<>>]

Providers == {"OpenAI", "Anthropic", "Local/Other"}
\* Texts typed into the API key / API endpoint input.
Secrets == {"secret-1", "secret-2"}
\* The text the page's user types there.
PageSecrets == {"secret-1"}
Modes == {"Translation Analysis", "Format Conversion", "Quality Check", "Custom Processing"}

OutTSV == <<"T", "S", "V">>
OutUSFM == <<"U", "S", "F", "M">>
OutMarkdown == <<"M", "a", "r", "k", "d", "o", "w", "n">>
OutJSON == <<"J", "S", "O", "N">>
OutXML == <<"X", "M", "L">>
OutputFormats == {OutTSV, OutUSFM, OutMarkdown, OutJSON, OutXML}
FmtTxt == <<"t", "x", "t">>

AnalysisChoices == {<<>>, <<"Semantic Analysis">>}
CheckChoices == {<<>>, <<"Translation Completeness">>}

\* The names lines 81-104 bind for a processing mode, with the values the
\* user selected.
ParamChoices(mode) ==
    IF mode = "Translation Analysis"
    THEN {[source_lang |-> "Hebrew", target_lang |-> "English", analysis_type |-> a] :
            a \in AnalysisChoices}
    ELSE IF mode = "Format Conversion"
    THEN {[input_format |-> "TSV", output_format |-> f] : f \in OutputFormats}
    ELSE IF mode = "Quality Check"
    THEN {[check_types |-> c] : c \in CheckChoices}
    ELSE {[custom_prompt |-> ""]}

\* The names lines 23-45 bind.
SidebarNames(provider, secret, mode) ==
    (IF provider \in {"OpenAI", "Anthropic"}
     THEN [api_provider |-> provider, api_key |-> secret]
     ELSE [api_provider |-> provider, api_endpoint |-> secret])
    @@ [processing_mode |-> mode]

\* The names lines 176-218 bind.
HelperNames ==
    [process_bible_data |-> "function", create_download_content |-> "function",
     call_ai_api |-> "function"]

\* The namespace of a run that has bound nothing yet.
EmptyNs == EmptyDict

\* output_format if 'output_format' in locals() else 'txt'     (line 158)
DownloadFormat(names) ==
    IF "output_format" \in DOMAIN names THEN names["output_format"] ELSE FmtTxt

\* ------------------------------------------------------------------ state
VARIABLES
    uploaded_file,    \* the file_uploader's value: NoFile or [name, content]
    pos,              \* read position of uploaded_file
    widgets,          \* the values of the other widgets
    clicked,          \* whether the current run was started by Start Processing
    pc,               \* where the current run of the script stands
    ns,               \* the script's namespace: the names bound so far
    progress,         \* progress bar value, -1 while there is none
    status_text,      \* the status placeholder's text
    ui,               \* the elements the run has rendered
    error_text,       \* str(e) of the exception st.error showed
    read_from,        \* position at which line 121 started to read, -1 if it has not
    file_content,     \* the bytes line 121 read
    data,             \* `data` of lines 124/126
    processed_result, \* `processed_result` of line 133
    output_content,   \* `output_content` of line 158
    text,             \* input text of the TSV pipeline
    format_type,      \* the format token of a direct create_download_content call
    reparsed          \* a second parse of output_content

vars == <<uploaded_file, pos, widgets, clicked, pc, ns, progress, status_text, ui,
          error_text, read_from, file_content, data, processed_result,
          output_content, text, format_type, reparsed>>

NoData == [none |-> TRUE]
NoResult == EmptyDict
NoParse == [err |-> "none", columns |-> <<>>, records |-> <<>>]

\* ------------------------------------------------- the try block, lines 116-165
\* The statements of the try block run in order up to the first that
\* raises; exc names the exception ("" when none was raised).  Each operator
\* below is the block from one statement on, given what the statements
\* before it computed.

\* What the block leaves when a statement raises exc.
Raised(file, content, exc, prog, status, shown, dataV, result) ==
    [pos |-> Len(file.content), file_content |-> content, exc |-> exc,
     progress |-> prog, status |-> status, ui |-> shown, data |-> dataV,
     result |-> result, out |-> <<>>]

\* Lines 157-165, the download section.
TryDownload(file, content, names, dataV, result) ==
    IF "processed_data" \notin DOMAIN result
    THEN Raised(file, content, "", 100, "Processing complete!",
                {"success", "results"}, dataV, result)
    ELSE IF "create_download_content" \notin DOMAIN names
    THEN Raised(file, content, "NameError", 100, "Processing complete!",
                {"success", "results"}, dataV, result)
    ELSE [pos |-> Len(file.content), file_content |-> content, exc |-> "",
          progress |-> 100, status |-> "Processing complete!",
          ui |-> {"success", "results", "download_button"},
          data |-> dataV, result |-> result,
          out |-> CreateDownloadContent(result.processed_data, DownloadFormat(names))]

\* Lines 128-151: the call of process_bible_data and the display of its result.
TryCall(file, content, names, dataV) ==
    IF "process_bible_data" \notin DOMAIN names
    THEN Raised(file, content, "NameError", 60, "Processing with AI...", {},
                dataV, NoResult)
    ELSE TryDownload(file, content, names, dataV,
                     ProcessBibleData(dataV, names["processing_mode"],
                                      names @@ [file_content |-> content,
                                                data |-> dataV]))

\* Lines 123-124: df.to_dict('records') of the frame read.
TryFrame(file, content, names, csv) ==
    IF csv.err # ""
    THEN Raised(file, content, csv.err, 20, "Reading file...", {}, NoData, NoResult)
    ELSE TryCall(file, content, names, DataList(csv.records))

\* Lines 122-126: the decoded content parsed as TSV, or kept as text.
TryParse(file, content, names, dec) ==
    IF dec.err # ""
    THEN Raised(file, content, dec.err, 20, "Reading file...", {}, NoData, NoResult)
    ELSE IF EndsWithTsv(file.name)
    THEN TryFrame(file, content, names, ReadCsv(dec.text))
    ELSE TryCall(file, content, names, DataStr(dec.text))

\* Lines 121-126: uploaded_file.read() returns the bytes from the read
\* position on.
TryRead(file, content, names) == TryParse(file, content, names, Decode(content))

TryBlock(file, p, names) ==
    TryRead(file, SubSeq(file.content, p + 1, Len(file.content)), names)

\* Mutant of ExceptHandler: the progress bar is not reset.
ExceptHandlerKeepsProgress(r) ==
    IF r.exc = "" THEN r
    ELSE [r EXCEPT !.status = "Processing failed", !.ui = @ \cup {"error"}]

\* except Exception as e:  lines 167-170
ExceptHandler(r) ==
    IF r.exc = "" THEN r
    ELSE [r EXCEPT !.progress = 0, !.status = "Processing failed",
                   !.ui = @ \cup {"error"}]

\* ------------------------------------------------- the preview, lines 65-75
\* The read position the preview leaves, and the exception it caught.
PreviewOf(file, dec) ==
    IF EndsWithTsv(file.name)
    THEN \* pd.read_csv(uploaded_file, sep='\t') reads the handle to its end
         [pos |-> Len(file.content),
          exc |-> IF dec.err # "" THEN dec.err ELSE ReadCsv(dec.text).err]
    ELSE IF dec.err # ""
    THEN \* read() moved to the end and decode raised before seek(0)
         [pos |-> Len(file.content), exc |-> dec.err]
    ELSE \* uploaded_file.seek(0)
         [pos |-> 0, exc |-> ""]

Preview(file, p) == PreviewOf(file, Decode(SubSeq(file.content, p + 1, Len(file.content))))

\* ------------------------------------------------------------ page script
DefaultWidgets ==
    [api_provider |-> "OpenAI", secret |-> "secret-1",
     processing_mode |-> "Translation Analysis",
     params |-> [source_lang |-> "Hebrew", target_lang |-> "English",
                 analysis_type |-> <<>>],
     preview |-> FALSE]

Init ==
    /\ uploaded_file = NoFile
    /\ pos = 0
    /\ widgets = DefaultWidgets
    /\ clicked = FALSE
    /\ pc = "idle"
    /\ ns = EmptyNs
    /\ progress = -1
    /\ status_text = ""
    /\ ui = {}
    /\ error_text = ""
    /\ read_from = -1
    /\ file_content = <<>>
    /\ data = NoData
    /\ processed_result = NoResult
    /\ output_content = <<>>
    /\ text = <<>>
    /\ format_type = <<>>
    /\ reparsed = NoParse

\* A widget interaction reruns the script from its first line in a fresh
\* namespace, with a fresh handle on the uploaded file.
Rerun(click) ==
    /\ clicked' = click
    /\ pc' = "sidebar"
    /\ ns' = EmptyNs
    /\ pos' = 0
    /\ progress' = -1
    /\ status_text' = ""
    /\ ui' = {}
    /\ error_text' = ""
    /\ read_from' = -1
    /\ file_content' = <<>>
    /\ data' = NoData
    /\ processed_result' = NoResult
    /\ output_content' = <<>>
    /\ UNCHANGED <<text, format_type, reparsed>>

\* The user picks a file in the empty uploader (line 53).
UserUpload ==
    /\ pc = "idle"
    /\ uploaded_file = NoFile
    /\ \E name \in FileNames, content \in SeqsUpTo(FileBytes, MaxFileLen) :
          uploaded_file' = [name |-> name, content |-> content]
    /\ UNCHANGED widgets
    /\ Rerun(FALSE)

\* The user removes the file from the uploader; the preview checkbox, which
\* line 65 renders only for a file, goes with it.
UserRemove ==
    /\ pc = "idle"
    /\ uploaded_file # NoFile
    /\ uploaded_file' = NoFile
    /\ widgets' = [widgets EXCEPT !.preview = FALSE]
    /\ Rerun(FALSE)

\* The user changes the sidebar, the parameters or the preview checkbox.
UserConfigure ==
    /\ pc = "idle"
    /\ \E provider \in Providers, secret \in PageSecrets, mode \in Modes, chk \in BOOLEAN :
          \E params \in ParamChoices(mode) :
             widgets' = [api_provider |-> provider, secret |-> secret,
                         processing_mode |-> mode, params |-> params,
                         preview |-> chk /\ uploaded_file # NoFile]
    /\ UNCHANGED uploaded_file
    /\ Rerun(FALSE)

\* The user clicks Start Processing, which line 110 renders only when a file
\* is uploaded.
UserClick ==
    /\ pc = "idle"
    /\ uploaded_file # NoFile
    /\ UNCHANGED <<uploaded_file, widgets>>
    /\ Rerun(TRUE)

\* Lines 19-45.
RunSidebar ==
    /\ pc = "sidebar"
    /\ ns' = ns @@ SidebarNames(widgets.api_provider, widgets.secret,
                                widgets.processing_mode)
    /\ pc' = "upload"
    /\ UNCHANGED <<uploaded_file, pos, widgets, clicked, progress, status_text, ui,
                   error_text, read_from, file_content, data, processed_result,
                   output_content, text, format_type, reparsed>>

\* What the preview r leaves on the page.
Previewed(r) ==
    /\ pos' = r.pos
    /\ ui' = ui \cup {"file_info"}
             \cup (IF r.exc # "" THEN {"preview_error"} ELSE {"preview"})

\* Lines 47-75.
RunUpload ==
    /\ pc = "upload"
    /\ IF uploaded_file # NoFile /\ widgets.preview
       THEN Previewed(Preview(uploaded_file, pos))
       ELSE /\ pos' = pos
            /\ ui' = ui \cup (IF uploaded_file # NoFile THEN {"file_info"} ELSE {})
    /\ ns' = ns @@ [uploaded_file |-> uploaded_file.name]
    /\ pc' = "params"
    /\ UNCHANGED <<uploaded_file, widgets, clicked, progress, status_text,
                   error_text, read_from, file_content, data, processed_result,
                   output_content, text, format_type, reparsed>>

\* Lines 77-104.
RunParams ==
    /\ pc = "params"
    /\ ns' = ns @@ widgets.params
    /\ pc' = "processing"
    /\ UNCHANGED <<uploaded_file, pos, widgets, clicked, progress, status_text, ui,
                   error_text, read_from, file_content, data, processed_result,
                   output_content, text, format_type, reparsed>>

\* What the try statement's outcome r leaves on the page.
Processed(r) ==
    /\ read_from' = pos
    /\ pos' = r.pos
    /\ file_content' = r.file_content
    /\ data' = r.data
    /\ processed_result' = r.result
    /\ output_content' = r.out
    /\ progress' = r.progress
    /\ status_text' = r.status
    /\ error_text' = r.exc
    /\ ui' = ui \cup r.ui

\* Lines 106-173.
RunProcessing ==
    /\ pc = "processing"
    /\ IF uploaded_file # NoFile /\ clicked
       THEN Processed(ExceptHandler(TryBlock(uploaded_file, pos, ns)))
       ELSE /\ ui' = ui \cup (IF uploaded_file = NoFile THEN {"upload_hint"} ELSE {})
            /\ UNCHANGED <<read_from, pos, file_content, data, processed_result,
                           output_content, progress, status_text, error_text>>
    /\ pc' = "helpers"
    /\ UNCHANGED <<uploaded_file, widgets, clicked, ns, text, format_type, reparsed>>

\* Lines 175-238: the def statements bind the helper functions.
RunHelpers ==
    /\ pc = "helpers"
    /\ ns' = ns @@ HelperNames
    /\ pc' = "idle"
    /\ UNCHANGED <<uploaded_file, pos, widgets, clicked, progress, status_text, ui,
                   error_text, read_from, file_content, data, processed_result,
                   output_content, text, format_type, reparsed>>

Next ==
    \/ UserUpload
    \/ UserRemove
    \/ UserConfigure
    \/ UserClick
    \/ RunSidebar
    \/ RunUpload
    \/ RunParams
    \/ RunProcessing
    \/ RunHelpers

Spec == Init /\ [][Next]_vars

\* --------------------------------------------- the TSV pipeline, end to end
\* The .tsv read path (lines 123-124), process_bible_data (line 133), the
\* download content (line 158) and a second read of that content, applied
\* to every text of up to MaxLen characters.  The download format is the
\* selected output_format, which only the Format Conversion mode binds.
TsvFormats == {OutTSV, OutJSON}

TsvNames(f) ==
    SidebarNames("OpenAI", "secret-1", "Format Conversion")
    @@ [input_format |-> "TSV", output_format |-> f]

TsvInit ==
    /\ text \in SeqsUpTo(TextChars, MaxLen)
    /\ pc = "read"
    /\ uploaded_file = NoFile
    /\ pos = 0
    /\ widgets = DefaultWidgets
    /\ clicked = FALSE
    /\ ns = EmptyNs
    /\ progress = -1
    /\ status_text = ""
    /\ ui = {}
    /\ error_text = ""
    /\ read_from = -1
    /\ file_content = <<>>
    /\ data = NoData
    /\ processed_result = NoResult
    /\ output_content = <<>>
    /\ format_type = <<>>
    /\ reparsed = NoParse

\* What the parse csv leaves: the records, or the exception raised.
TsvParsed(csv) ==
    IF csv.err # ""
    THEN /\ error_text' = csv.err
         /\ pc' = "failed"
         /\ data' = data
    ELSE /\ error_text' = error_text
         /\ pc' = "process"
         /\ data' = DataList(csv.records)

\* Lines 123-124.
TsvRead ==
    /\ pc = "read"
    /\ TsvParsed(ReadCsv(text))
    /\ UNCHANGED <<uploaded_file, pos, widgets, clicked, ns, progress, status_text,
                   ui, read_from, file_content, processed_result, output_content,
                   text, format_type, reparsed>>

\* Line 133.
TsvProcess ==
    /\ pc = "process"
    /\ \E f \in TsvFormats :
          /\ ns' = TsvNames(f)
          /\ processed_result' = ProcessBibleData(data, "Format Conversion", TsvNames(f))
    /\ pc' = "download"
    /\ UNCHANGED <<uploaded_file, pos, widgets, clicked, progress, status_text, ui,
                   error_text, read_from, file_content, data, output_content, text,
                   format_type, reparsed>>

\* Lines 157-158.
TsvDownload ==
    /\ pc = "download"
    /\ "processed_data" \in DOMAIN processed_result
    /\ output_content' = CreateDownloadContent(processed_result.processed_data,
                                               DownloadFormat(ns))
    /\ pc' = "reparse"
    /\ UNCHANGED <<uploaded_file, pos, widgets, clicked, ns, progress, status_text,
                   ui, error_text, read_from, file_content, data, processed_result,
                   text, format_type, reparsed>>

\* The downloaded TSV content read again by the .tsv read path.
TsvReparse ==
    /\ pc = "reparse"
    /\ Lower(DownloadFormat(ns)) = FmtTsv
    /\ reparsed' = ReadCsv(output_content)
    /\ pc' = "done"
    /\ UNCHANGED <<uploaded_file, pos, widgets, clicked, ns, progress, status_text,
                   ui, error_text, read_from, file_content, data, processed_result,
                   output_content, text, format_type>>

TsvNext ==
    \/ TsvRead
    \/ TsvProcess
    \/ TsvDownload
    \/ TsvReparse

TsvSpec == TsvInit /\ [][TsvNext]_vars

\* ------------------------------------------- the helper functions, applied
\* process_bible_data and create_download_content applied to every value
\* lines 121-126 give `data` for a text of up to MaxText characters, under
\* every namespace lines 23-104 can bind.
TargetTextKey == <<"T", "a", "r", "g", "e", "t", " ", "T", "e", "x", "t">>

\* A TSV text with a Book and a Target Text column, whose second row has an
\* empty target text.
TargetTextTsv ==
    <<"B", "o", "o", "k", TAB>> \o TargetTextKey \o <<NL, "a", TAB, "a", NL, "a", TAB, NL>>

\* Lines 122-126 for a decoded text.
ReadData(name, t) ==
    IF EndsWithTsv(name) THEN DataList(ReadCsv(t).records) ELSE DataStr(t)

FnTexts == SeqsUpTo(TextChars, MaxText) \cup {TargetTextTsv}

FnData ==
    {ReadData(name, t) : name \in FileNames,
                         t \in {x \in FnTexts : ReadCsv(x).err = ""}}
    \cup {DataStr(t) : t \in FnTexts}

FnNamespaces ==
    UNION {{SidebarNames(p, s, m) @@ c : c \in ParamChoices(m)} :
             p \in Providers, s \in Secrets, m \in Modes}

\* Format tokens in the cases a caller may write them.
FormatTokens ==
    OutputFormats \cup {Lower(f) : f \in OutputFormats}
    \cup {FmtTxt, <<"J", "s", "o", "n">>, <<"T", "s", "v">>}

FnInit ==
    /\ data \in FnData
    /\ \/ pc = "call" /\ ns \in FnNamespaces
       \/ pc = "create" /\ ns = EmptyNs
    /\ uploaded_file = NoFile
    /\ pos = 0
    /\ widgets = DefaultWidgets
    /\ clicked = FALSE
    /\ progress = -1
    /\ status_text = ""
    /\ ui = {}
    /\ error_text = ""
    /\ read_from = -1
    /\ file_content = <<>>
    /\ processed_result = NoResult
    /\ output_content = <<>>
    /\ text = <<>>
    /\ format_type = <<>>
    /\ reparsed = NoParse

\* processed_result = process_bible_data(data, processing_mode, locals())
FnProcess ==
    /\ pc = "call"
    /\ processed_result' = ProcessBibleData(data, ns["processing_mode"],
                                            ns @@ [data |-> data])
    /\ pc' = "download"
    /\ UNCHANGED <<uploaded_file, pos, widgets, clicked, ns, progress, status_text,
                   ui, error_text, read_from, file_content, data, output_content,
                   text, format_type, reparsed>>

\* Lines 157-158.
FnDownload ==
    /\ pc = "download"
    /\ "processed_data" \in DOMAIN processed_result
    /\ output_content' = CreateDownloadContent(processed_result.processed_data,
                                               DownloadFormat(ns))
    /\ pc' = "done"
    /\ UNCHANGED <<uploaded_file, pos, widgets, clicked, ns, progress, status_text,
                   ui, error_text, read_from, file_content, data, processed_result,
                   text, format_type, reparsed>>

\* A direct call of create_download_content with any format token.
FnCreate ==
    /\ pc = "create"
    /\ \E f \in FormatTokens :
          /\ format_type' = f
          /\ output_content' = CreateDownloadContent(data, f)
    /\ pc' = "created"
    /\ UNCHANGED <<uploaded_file, pos, widgets, clicked, ns, progress, status_text,
                   ui, error_text, read_from, file_content, data, processed_result,
                   text, reparsed>>

FnNext ==
    \/ FnProcess
    \/ FnDownload
    \/ FnCreate

FnSpec == FnInit /\ [][FnNext]_vars

\* ------------------------------------------------- claims on the page script
\* A Start Processing run that has left the processing section.
ClickRunEnded == clicked /\ pc \in {"helpers", "idle"}

\* The uploaded content decodes as UTF-8 and, for a .tsv name, parses.
ValidUpload ==
    /\ uploaded_file # NoFile
    /\ Decode(uploaded_file.content).err = ""
    /\ EndsWithTsv(uploaded_file.name)
         => ReadCsv(Decode(uploaded_file.content).text).err = ""

\* C1: every Start Processing run on a valid upload ends in the 'Processing
\* complete' state at progress 100 with the result displayed and a download
\* button offered, never in 'Processing failed'.
C1_ValidRunCompletes ==
    (ClickRunEnded /\ ValidUpload)
        => /\ status_text = "Processing complete!"
           /\ progress = 100
           /\ {"results", "download_button"} \subseteq ui

\* C3: a Start Processing run in which a statement of the try block raised
\* shows the error with the exception's text, has the progress bar at 0 and
\* the status 'Processing failed', and offers no download; and bytes that do
\* not decode or do not parse are never turned into a result.
C3_RaiseAborts ==
    ClickRunEnded =>
        /\ error_text # ""
             => /\ "error" \in ui
                /\ progress = 0
                /\ status_text = "Processing failed"
                /\ "download_button" \notin ui
                /\ output_content = <<>>
        /\ (\/ Decode(file_content).err # ""
            \/ /\ EndsWithTsv(uploaded_file.name)
               /\ ReadCsv(Decode(file_content).text).err # "")
             => /\ error_text \in {"UnicodeDecodeError", "EmptyDataError", "ParserError"}
                /\ data = NoData
                /\ processed_result = NoResult

\* C3 witness: a run whose decode raised, ended in the failed state.
C3_Witness ==
    /\ ClickRunEnded
    /\ error_text = "UnicodeDecodeError"
    /\ status_text = "Processing failed"
    /\ progress = 0

\* C8: in a run with the preview checked and Start Processing clicked, the
\* processing step reads the complete file from position 0.
C8_PreviewKeepsPosition ==
    (ClickRunEnded /\ widgets.preview)
        => /\ read_from = 0
           /\ file_content = uploaded_file.content

\* ------------------------------------------------ claims on the TSV pipeline
\* The non-blank lines of a text, each as its tab-separated fields.
TsvRows(t) ==
    LET all == Split(t, NL)
        keep == SelectSeqIdx(all, 1, <<>>)
    IN [i \in 1..Len(keep) |-> Fields(all[keep[i]])]

\* A header line, and every data row with exactly the header's fields.
WellFormedRows(rows) ==
    /\ Len(rows) >= 1
    /\ \A i \in 2..Len(rows) : Len(rows[i]) = Len(rows[1])

WellFormedTsv(t) == WellFormedRows(TsvRows(t))

\* A header line and no data row.
HeaderOnly(t) == Len(TsvRows(t)) = 1

\* The written field is the value: an empty field a missing value, digits an
\* int of that value, a number a float of that value, other text a str.
CellMatches(fld, v) ==
    IF fld = <<>> THEN v = NaN
    ELSE IF v.t = "int" THEN IsDigits(fld) /\ IntCanon(fld) = v.s
    ELSE IF v.t = "float" THEN IsNumeric(fld) /\ FloatCanon(fld) = v.s
    ELSE fld = v.s

RowMatches(flds, rec) ==
    /\ Len(flds) <= Len(rec)
    /\ \A j \in 1..Len(rec) :
          CellMatches(IF j <= Len(flds) THEN flds[j] ELSE <<>>, rec[j].v)

\* Row i of rows (after the header) is record i of recs, for every i.
SameOrder(rows, recs) ==
    /\ Len(rows) = Len(recs) + 1
    /\ \A i \in 1..Len(recs) : RowMatches(rows[i + 1], recs[i])

\* C4: for every well-formed TSV text, reading it, writing the records as
\* 'tsv' and reading the output again gives the records of the first read.
C4_TsvRoundTrip ==
    (pc = "done" /\ WellFormedTsv(text))
        => /\ reparsed.err = ""
           /\ reparsed.records = data.list

\* The members ("key": value lines) of an indent=2 dump, in output order,
\* without the separating commas.
JsonMembers(out) ==
    LET lines == Split(out, NL)
        isMember(l) == Len(l) > 4 /\ SubSeq(l, 1, 4) = <<" ", " ", " ", " ">>
        idx == SelectSeqIdx([i \in 1..Len(lines) |->
                               IF isMember(lines[i]) THEN lines[i] ELSE <<>>], 1, <<>>)
        bare(l) == IF l[Len(l)] = "," THEN SubSeq(l, 5, Len(l) - 1)
                   ELSE SubSeq(l, 5, Len(l))
    IN [n \in 1..Len(idx) |-> bare(lines[idx[n]])]

\* The members the records give, record by record, key by key.
ExpectedMembers(recs) ==
    Concat([i \in 1..Len(recs) |->
              [j \in 1..Len(recs[i]) |->
                 JsonString(recs[i][j].k) \o <<":", " ">> \o JsonValue(recs[i][j].v)]])

\* C5: the records of a parsed TSV text are its data rows in file order,
\* process_bible_data hands them on in that order, and the tsv or json
\* download content lists them in that order.
C5_OrderPreserved ==
    /\ (pc \notin {"read", "failed"} /\ WellFormedTsv(text))
          => SameOrder(TsvRows(text), data.list)
    /\ pc \in {"download", "reparse", "done"}
          => processed_result.processed_data = data
    /\ (pc \in {"reparse", "done"} /\ Lower(DownloadFormat(ns)) = FmtTsv)
          => /\ Len(data.list) > 0 => SameOrder(TsvRows(output_content), data.list)
             /\ Len(Split(output_content, NL)) = Len(data.list) + 2
    /\ (pc = "reparse" /\ Lower(DownloadFormat(ns)) = FmtJson)
          => JsonMembers(output_content) = ExpectedMembers(data.list)

\* C5 witness: two different records written in tsv, and in json.
C5_Witness ==
    /\ pc = "done"
    /\ Len(data.list) = 2
    /\ data.list[1] # data.list[2]
    /\ WellFormedTsv(text)

\* C6: a TSV text of a header and no data row parses, without an error, to
\* no records, and total_entries is 0.
C6_HeaderOnlyParses ==
    HeaderOnly(text)
        => /\ pc # "failed"
           /\ pc # "read" => data = DataList(<<>>)
           /\ pc \in {"download", "reparse", "done"}
                 => processed_result.statistics.total_entries = 0

C6_Witness ==
    /\ HeaderOnly(text)
    /\ pc = "download"
    /\ processed_result.statistics.total_entries = 0

\* ------------------------------------------- claims on the helper functions
\* The number of newline characters of a text.
NewlineCount(t) == Cardinality({i \in 1..Len(t) : t[i] = NL})

\* C2: process_bible_data returns the data unchanged as 'processed_data',
\* the mode as statistics.processing_mode, and as statistics.total_entries
\* the number of records of a list and otherwise the number of
\* newline-separated lines of the text (1 for an empty text).
C2_ProcessEchoesData ==
    pc \in {"download", "done"}
        => /\ processed_result.processed_data = data
           /\ processed_result.statistics.processing_mode = ns["processing_mode"]
           /\ processed_result.statistics.total_entries =
                 IF IsList(data) THEN Len(data.list) ELSE NewlineCount(data.str) + 1

\* C2 witness: the empty text counted as one entry.
C2_Witness ==
    /\ pc = "download"
    /\ data = DataStr(<<>>)
    /\ processed_result.statistics.total_entries = 1

\* A record whose target text is empty: the empty string, or the missing
\* value an empty TSV cell is read as.
EmptyTargetText(rec) ==
    \E j \in 1..Len(rec) : rec[j].k = TargetTextKey /\ rec[j].v \in {NaN, PyStr(<<>>)}

Selected(choice, option) == \E n \in 1..Len(choice) : choice[n] = option

\* C7: in Quality Check processing with the completeness check selected, a
\* record with an empty target text is reported, so issues_found is at
\* least 1 when the data holds such a record.
C7_CompletenessIssueFound ==
    (/\ pc \in {"download", "done"}
     /\ ns["processing_mode"] = "Quality Check"
     /\ Selected(ns["check_types"], "Translation Completeness")
     /\ IsList(data)
     /\ \E i \in 1..Len(data.list) : EmptyTargetText(data.list[i]))
        => processed_result.quality_report.issues_found >= 1

JsonTokens == {<<"j", "s", "o", "n">>, <<"J", "S", "O", "N">>, <<"J", "s", "o", "n">>}
TsvTokens == {<<"t", "s", "v">>, <<"T", "S", "V">>, <<"T", "s", "v">>}

\* The content a format token stands for: JSON for 'json', tabular for 'tsv'
\* with list data, the plain string form for every other token.
ContentFor(d, token) ==
    IF token \in JsonTokens THEN JsonDumps(d)
    ELSE IF token \in TsvTokens /\ IsList(d) THEN ToCsv(d.list)
    ELSE StrOf(d)

\* C9: the download content is created with the selected output_format
\* exactly when the mode is Format Conversion, and with 'txt', so as the
\* plain string form, in every other mode; create_download_content matches
\* the token case-insensitively.
C9_DownloadFormat ==
    /\ pc = "done"
         => IF ns["processing_mode"] = "Format Conversion"
            THEN output_content =
                    ContentFor(processed_result.processed_data, ns["output_format"])
            ELSE output_content = StrOf(processed_result.processed_data)
    /\ pc = "created" => output_content = ContentFor(data, format_type)

\* C9 witness: a Format Conversion download in the selected JSON format,
\* which is not the plain string form.
C9_Witness ==
    /\ pc = "done"
    /\ ns["processing_mode"] = "Format Conversion"
    /\ ns["output_format"] = OutJSON
    /\ output_content = JsonDumps(data)
    /\ output_content # StrOf(data)

\* The names process_bible_data copies from params in a mode.
CopiedNames(mode) ==
    IF mode = "Translation Analysis" THEN {"source_lang", "target_lang", "analysis_type"}
    ELSE IF mode = "Quality Check" THEN {"check_types"}
    ELSE {}

\* Two namespaces bind the given names alike.
Agree(q, r, names) ==
    \A n \in names : /\ (n \in DOMAIN q) = (n \in DOMAIN r)
                     /\ n \in DOMAIN q => q[n] = r[n]

\* The namespace with another text entered as API key or endpoint.
WithSecret(names, s) ==
    [n \in DOMAIN names |-> IF n \in {"api_key", "api_endpoint"} THEN s ELSE names[n]]

\* The download content of a run under the namespace q.
DownloadOf(d, mode, q) ==
    CreateDownloadContent(ProcessBibleData(d, mode, q @@ [data |-> d]).processed_data,
                          DownloadFormat(q))

\* C10: the processed result depends on params only through source_lang,
\* target_lang, analysis_type (Translation Analysis) or check_types (Quality
\* Check); two runs that differ only in the API key or endpoint entered have
\* the same result and the same download content.
C10_CredentialDoesNotFlow ==
    /\ pc \in {"download", "done"}
         => \A q \in FnNamespaces :
               Agree(q, ns, CopiedNames(ns["processing_mode"]))
                  => ProcessBibleData(data, ns["processing_mode"], q @@ [data |-> data])
                        = processed_result
    /\ pc = "done"
         => \A s \in Secrets :
               DownloadOf(data, ns["processing_mode"], WithSecret(ns, s)) = output_content

\* C10 witness: a finished run that had an API key in its namespace.
C10_Witness ==
    /\ pc = "done"
    /\ "api_key" \in DOMAIN ns
    /\ ns["api_key"] = "secret-2"
    /\ ns["processing_mode"] = "Translation Analysis"

====
